---- MODULE Spec2Model ----
(***************************************************************************)
(* pandapower/pd2ppc.py: the compiler from the external case (ppc) to the  *)
(* internal case (ppci), the incremental updater, and the zero-sequence    *)
(* transformer branch synthesizer.                                         *)
(*                                                                         *)
(* numpy arrays are functions on 0..n-1 (<< >> is the empty array); a      *)
(* table is an array of records, one field per column the code reads or    *)
(* writes, plus one value column that stands for the remaining columns.    *)
(***************************************************************************)
EXTENDS Integers, FiniteSets, Sequences, TLC

\* ------------------------------------------------------------------ bounds

\* number of bus rows of the external case
NBus == 3
\* largest number of generator-like rows of the external case
MaxGen == 3
\* largest element id of a generator-like element table
MaxId == 1
\* largest number of rows of net.trafo
MaxTrafo == 2
\* the operating points the builders write into the value columns
OpValues == {0, 1}

\* ------------------------------------------------------- column constants

\* idx_bus: bus types
PQ == 1
NONE == 4

\* ------------------------------------------------------------ numpy arrays

len(a) == Cardinality(DOMAIN a)

arange(n) == [i \in 0..(n - 1) |-> i]

\* np.r_[a, b]
r_(a, b) ==
    [k \in 0..(len(a) + len(b) - 1) |-> IF k < len(a) THEN a[k] ELSE b[k - len(a)]]

\* ~mask
invert(mask) == [i \in DOMAIN mask |-> ~mask[i]]

\* np.sum(mask)
np_sum(mask) == Cardinality({i \in DOMAIN mask : mask[i]})

\* a[mask] with a boolean mask: the rows where the mask is True, in order.
\* numpy raises IndexError when the mask's length is not the array's.
bool_index_ok(a, mask) == DOMAIN mask = DOMAIN a

bool_index(a, mask) ==
    LET T == {i \in DOMAIN mask : mask[i]}
    IN  [k \in 0..(Cardinality(T) - 1) |->
            a[CHOOSE i \in T : Cardinality({j \in T : j < i}) = k]]

\* a[idx] with an integer index array
take_ok(a, idx) == \A k \in DOMAIN idx : idx[k] \in DOMAIN a

take(a, idx) == [k \in DOMAIN idx |-> a[idx[k]]]

\* a[lo:hi] (Python clamps the slice to the array)
slice(a, lo, hi) ==
    LET h == IF hi < len(a) THEN hi ELSE len(a)
    IN  [k \in 0..(h - lo - 1) |-> a[lo + k]]

\* max(a) of a non-empty integer array
max(a) == CHOOSE m \in {a[k] : k \in DOMAIN a} : \A k \in DOMAIN a : a[k] <= m

\* base[idx] = vals on a copy of base: a later duplicate index wins
put(base, idx, vals) ==
    [v \in DOMAIN base |->
        IF \E k \in DOMAIN idx : idx[k] = v
        THEN vals[CHOOSE k \in DOMAIN idx :
                    idx[k] = v /\ \A j \in DOMAIN idx : idx[j] = v => j <= k]
        ELSE base[v]]

column(table, col) == [i \in DOMAIN table |-> table[i][col]]

\* ----------------------------------------------------------- _init_ppc

EmptyInternal == [branch_is |-> << >>, gen_is |-> << >>]

init_ppc == [bus |-> << >>, branch |-> << >>, gen |-> << >>, internal |-> EmptyInternal]

\* ----------------------------------------------------------- _ppc2ppci

\* line 164: oos_busses = ppc['bus'][:, BUS_TYPE] == NONE
oos_busses(bus) == [i \in DOMAIN bus |-> bus[i].BUS_TYPE = NONE]

\* line 167: the in-service bus rows first, the NONE-typed rows at the end
reorder_bus(bus) ==
    r_(bool_index(bus, invert(oos_busses(bus))), bool_index(bus, oos_busses(bus)))

\* lines 170-175, on the reordered bus table: e2i = zeros(n); e2i[BUS_I] = arange(n).
\* The assignment raises IndexError when a BUS_I is not an index of e2i.
make_e2i_ok(bus) == \A i \in DOMAIN bus : bus[i].BUS_I \in 0..(len(bus) - 1)

\* a slip: e2i filled with the former order itself (row -> id, not id -> row)
make_e2i_row_to_id(bus) == column(bus, "BUS_I")

make_e2i(bus) ==
    put([v \in 0..(len(bus) - 1) |-> 0], column(bus, "BUS_I"), arange(len(bus)))

\* line 178: ppc['bus'][:, BUS_I] = aranged_buses
renumber_bus(bus) == [i \in DOMAIN bus |-> [bus[i] EXCEPT !.BUS_I = i]]

\* lines 165 and 179: the in-service rows, numbered as the head of ppc['bus']
make_ppci_bus(bus) ==
    LET rows == bool_index(bus, invert(oos_busses(bus)))
        head == renumber_bus(reorder_bus(bus))
    IN  [i \in DOMAIN rows |-> [rows[i] EXCEPT !.BUS_I = head[i].BUS_I]]

\* lines 264-268: every valid entry v becomes e2i[v], a negative one stays
update_lookup_entries_ok(lookup, e2i) ==
    \A i \in DOMAIN lookup : lookup[i] >= 0 => lookup[i] \in DOMAIN e2i

\* a slip: the lookup is written back without the remap
update_lookup_entries_skipped(lookup, e2i) == lookup

\* a slip: line 266 without the `valid` mask; a negative index counts from
\* the end of e2i
update_lookup_entries_unmasked(lookup, e2i) ==
    [i \in DOMAIN lookup |->
        e2i[IF lookup[i] >= 0 THEN lookup[i] ELSE lookup[i] + len(e2i)]]

update_lookup_entries(lookup, e2i) ==
    [i \in DOMAIN lookup |-> IF lookup[i] >= 0 THEN e2i[lookup[i]] ELSE lookup[i]]

\* lines 192-194: table[:, col] = e2i[table[:, col]]
remap_bus_refs_ok(table, col, e2i) == take_ok(e2i, column(table, col))

\* a slip: the column is left with the external bus ids
remap_bus_refs_skipped(table, col, e2i) == table

remap_bus_refs(table, col, e2i) ==
    [k \in DOMAIN table |-> [table[k] EXCEPT ![col] = e2i[table[k][col]]]]

\* line 207: the permutations argsort may return (the default sort kind is
\* not stable: rows with equal GEN_BUS may come in any order)
argsort(keys) ==
    {p \in [DOMAIN keys -> DOMAIN keys] :
        /\ \A i, j \in DOMAIN keys : i # j => p[i] # p[j]
        /\ \A i, j \in DOMAIN keys : i < j => keys[p[i]] <= keys[p[j]]}

\* a slip: the argsort result itself is taken for the new positions
new_gen_positions_is_sort_gens(sort_gens) == sort_gens

\* lines 208-209: new_gen_positions[sort_gens] = arange
make_new_gen_positions(sort_gens) ==
    put(arange(len(sort_gens)), sort_gens, arange(len(sort_gens)))

\* a slip: the rows are left in the order they were built in
reorder_gen_skipped(gen, sort_gens) == gen

\* line 210: ppc['gen'] = ppc['gen'][sort_gens,]
reorder_gen(gen, sort_gens) == take(gen, sort_gens)

\* lines 214-218: the end of each subtype's block of generator rows
Controllable == {"sgen_controllable", "load_controllable", "storage_controllable"}

eg_end(is_el) == np_sum(is_el["ext_grid"])

gen_end(is_el) == eg_end(is_el) + np_sum(is_el["gen"])

sgen_end(is_el) ==
    IF "sgen_controllable" \in DOMAIN is_el
    THEN len(is_el["sgen_controllable"]) + gen_end(is_el) ELSE gen_end(is_el)

load_end(is_el) ==
    IF "load_controllable" \in DOMAIN is_el
    THEN len(is_el["load_controllable"]) + sgen_end(is_el) ELSE sgen_end(is_el)

storage_end(is_el) ==
    IF "storage_controllable" \in DOMAIN is_el
    THEN len(is_el["storage_controllable"]) + load_end(is_el) ELSE load_end(is_el)

\* lines 274-277: the ids of the in-service elements of a subtype
pandapower_index(index, is_el, element) ==
    IF element \in Controllable
    THEN is_el[element]
    ELSE bool_index(index[element], is_el[element])

\* lines 271-285: lookup = -ones(max(ids) + 1); lookup[ids] = sort_gens[start:end]
build_gen_lookups(index, is_el, element, start, end, sort_gens) ==
    LET ids == pandapower_index(index, is_el, element)
    IN  put([v \in 0..max(ids) |-> -1], ids, slice(sort_gens, start, end))

\* lines 220-229: one lookup pass per non-empty block, in block order
gen_lookups(lookups, index, is_el, pos) ==
    LET l1 == IF eg_end(is_el) > 0
              THEN [lookups EXCEPT !["ext_grid"] =
                      build_gen_lookups(index, is_el, "ext_grid", 0, eg_end(is_el), pos)]
              ELSE lookups
        l2 == IF gen_end(is_el) > eg_end(is_el)
              THEN [l1 EXCEPT !["gen"] =
                      build_gen_lookups(index, is_el, "gen", eg_end(is_el),
                                        gen_end(is_el), pos)]
              ELSE l1
        l3 == IF sgen_end(is_el) > gen_end(is_el)
              THEN [l2 EXCEPT !["sgen_controllable"] =
                      build_gen_lookups(index, is_el, "sgen_controllable",
                                        gen_end(is_el), sgen_end(is_el), pos)]
              ELSE l2
        l4 == IF load_end(is_el) > sgen_end(is_el)
              THEN [l3 EXCEPT !["load_controllable"] =
                      build_gen_lookups(index, is_el, "load_controllable",
                                        sgen_end(is_el), load_end(is_el), pos)]
              ELSE l3
    IN  IF storage_end(is_el) > load_end(is_el)
        THEN [l4 EXCEPT !["storage_controllable"] =
                build_gen_lookups(index, is_el, "storage_controllable",
                                  load_end(is_el), storage_end(is_el), pos)]
        ELSE l4

\* line 234: bs = (bt != NONE), on the reordered bus table
bus_status(bus) == [i \in DOMAIN bus |-> bus[i].BUS_TYPE # NONE]

\* line 233: n2i = ppc["bus"][:, BUS_I]
n2i(bus) == column(bus, "BUS_I")

\* lines 236-237: gs = (GEN_STATUS > 0) & bs[n2i[GEN_BUS]]
gen_is(gen, bus) ==
    [k \in DOMAIN gen |->
        gen[k].GEN_STATUS > 0 /\ bus_status(bus)[n2i(bus)[gen[k].GEN_BUS]]]

\* x & flag for an int x and a numpy bool: the bool is cast to 0 or 1 and the
\* operator is the bitwise and, so the result is the lowest bit of x or 0
bitand(x, flag) == IF flag THEN x % 2 ELSE 0

\* lines 240-242: brs = (int(BR_STATUS) & bs[n2i[F_BUS]] & bs[n2i[T_BUS]]).astype(bool)
branch_is(branch, bus) ==
    [k \in DOMAIN branch |->
        bitand(bitand(branch[k].BR_STATUS,
                      bus_status(bus)[n2i(bus)[branch[k].F_BUS]]),
               bus_status(bus)[n2i(bus)[branch[k].T_BUS]]) # 0]

\* lines 162-204 raise IndexError when a bus id is not an index of e2i
ppc2ppci_ok(ppc, lookups) ==
    LET rb  == reorder_bus(ppc.bus)
        e2i == make_e2i(rb)
    IN  /\ make_e2i_ok(rb)
        /\ update_lookup_entries_ok(lookups["bus"], e2i)
        /\ remap_bus_refs_ok(ppc.gen, "GEN_BUS", e2i)
        /\ remap_bus_refs_ok(ppc.branch, "F_BUS", e2i)
        /\ remap_bus_refs_ok(ppc.branch, "T_BUS", e2i)

\* lines 192 and 207: the GEN_BUS column argsort is applied to
renumbered_gen(ppc) == remap_bus_refs(ppc.gen, "GEN_BUS", make_e2i(reorder_bus(ppc.bus)))

\* lines 159-261: the external case, the internal case and the lookups after
\* _ppc2ppci, for the permutation sort_gens that argsort returned
ppc2ppci(ppc, ppci, lookups, index, is_el, sort_gens) ==
    LET rb     == reorder_bus(ppc.bus)
        e2i    == make_e2i(rb)
        bus    == renumber_bus(rb)
        lk     == [lookups EXCEPT !["bus"] = update_lookup_entries(lookups["bus"], e2i)]
        gen    == reorder_gen(renumbered_gen(ppc), sort_gens)
        branch == remap_bus_refs(remap_bus_refs(ppc.branch, "F_BUS", e2i), "T_BUS", e2i)
        gs     == gen_is(gen, bus)
        brs    == branch_is(branch, bus)
    IN  [ppc     |-> [ppc EXCEPT !.bus = bus, !.gen = gen, !.branch = branch],
         ppci    |-> [ppci EXCEPT !.bus = make_ppci_bus(ppc.bus),
                                  !.branch = bool_index(branch, brs),
                                  !.gen = bool_index(gen, gs),
                                  !.internal = [@ EXCEPT !.gen_is = gs, !.branch_is = brs]],
         lookups |-> gen_lookups(lk, index, is_el, make_new_gen_positions(sort_gens)),
         e2i     |-> e2i]

\* lines 162-194 up to the IndexError: the external case and the lookups as
\* the statements before the failing one left them. Line 167 has reordered
\* the bus table; line 175 fails before line 178 renumbers it, line 182
\* before the lookup is written, lines 192-194 one column after the other.
ppc2ppci_raised(ppc, lookups) ==
    LET rb  == reorder_bus(ppc.bus)
        map == make_e2i(rb)
        lk  == [lookups EXCEPT !["bus"] = update_lookup_entries(lookups["bus"], map)]
        gen == remap_bus_refs(ppc.gen, "GEN_BUS", map)
    IN  IF ~make_e2i_ok(rb)
        THEN [ppc |-> [ppc EXCEPT !.bus = rb], lookups |-> lookups]
        ELSE IF ~update_lookup_entries_ok(lookups["bus"], map)
        THEN [ppc |-> [ppc EXCEPT !.bus = renumber_bus(rb)], lookups |-> lookups]
        ELSE IF ~remap_bus_refs_ok(ppc.gen, "GEN_BUS", map)
        THEN [ppc |-> [ppc EXCEPT !.bus = renumber_bus(rb)], lookups |-> lk]
        ELSE IF ~remap_bus_refs_ok(ppc.branch, "F_BUS", map)
        THEN [ppc |-> [ppc EXCEPT !.bus = renumber_bus(rb), !.gen = gen],
              lookups |-> lk]
        ELSE [ppc |-> [ppc EXCEPT !.bus = renumber_bus(rb), !.gen = gen,
                                  !.branch = remap_bus_refs(@, "F_BUS", map)],
              lookups |-> lk]

\* ------------------------------------------- rational and complex numbers

\* the floats of the zero-sequence formulas are exact fractions [n, d] with
\* d > 0 in lowest terms; a complex number is [real, imag]
abs(x) == IF x < 0 THEN -x ELSE x

RECURSIVE gcd(_, _)
gcd(a, b) == IF b = 0 THEN a ELSE gcd(b, a % b)

frac(n, d) ==
    LET s == IF d < 0 THEN -1 ELSE 1
        g == gcd(abs(n), abs(d))
    IN  [n |-> (s * n) \div g, d |-> (s * d) \div g]

q_int(i) == [n |-> i, d |-> 1]

q_add(a, b) == frac(a.n * b.d + b.n * a.d, a.d * b.d)

q_sub(a, b) == frac(a.n * b.d - b.n * a.d, a.d * b.d)

q_mul(a, b) == frac(a.n * b.n, a.d * b.d)

q_div(a, b) == frac(a.n * b.d, a.d * b.n)

q_gt(a, b) == a.n * b.d > b.n * a.d

complex(re, im) == [real |-> re, imag |-> im]

c_add(a, b) == complex(q_add(a.real, b.real), q_add(a.imag, b.imag))

c_sub(a, b) == complex(q_sub(a.real, b.real), q_sub(a.imag, b.imag))

c_mul(a, b) ==
    complex(q_sub(q_mul(a.real, b.real), q_mul(a.imag, b.imag)),
            q_add(q_mul(a.real, b.imag), q_mul(a.imag, b.real)))

c_div(a, b) ==
    LET den == q_add(q_mul(b.real, b.real), q_mul(b.imag, b.imag))
    IN  complex(q_div(q_add(q_mul(a.real, b.real), q_mul(a.imag, b.imag)), den),
                q_div(q_sub(q_mul(a.imag, b.real), q_mul(a.real, b.imag)), den))

\* a real factor times a complex number
c_scale(s, z) == complex(q_mul(s, z.real), q_mul(s, z.imag))

\* numpy orders complex numbers by the real part, then by the imaginary part
c_gt(a, b) == q_gt(a.real, b.real) \/ (a.real = b.real /\ q_gt(a.imag, b.imag))

c_zero == complex(q_int(0), q_int(0))

c_one == complex(q_int(1), q_int(0))

\* -1j
minus_j == complex(q_int(0), q_int(-1))

\* ---------------------------------------------- zero-sequence synthesizer

\* line 135 and int(ppc["baseMVA"]): baseMVA = net.sn_kva * 1e-3, truncated
int_baseMVA(net) == net.sn_kva \div 1000

\* table[idx[k]][col] = vals[k] for every k
put_column(table, idx, col, vals) ==
    [r \in DOMAIN table |->
        IF \E k \in DOMAIN idx : idx[k] = r
        THEN [table[r] EXCEPT ![col] = vals[CHOOSE k \in DOMAIN idx : idx[k] = r]]
        ELSE table[r]]

\* table[idx][col] = v
fill_column(table, idx, col, v) == put_column(table, idx, col, [k \in DOMAIN idx |-> v])

\* aux._sum_by_group: the sum of the values whose bus is b
RECURSIVE sum_at(_, _, _, _)
sum_at(buses, vals, b, n) ==
    IF n = 0
    THEN q_int(0)
    ELSE q_add(sum_at(buses, vals, b, n - 1),
               IF buses[n - 1] = b THEN vals[n - 1] ELSE q_int(0))

sum_by_group(buses, vals, b) == sum_at(buses, vals, b, len(buses))

\* the mode of the zero-sequence compiles: c = 1.1 (line 522)
c_pf_3ph == frac(11, 10)

\* lines 531-546 for one in-service external grid row with rx_max = 0, for
\* which np.sqrt(rx ** 2 + 1) is 1
y0_grid(row) ==
    LET z_grid  == q_div(c_pf_3ph, q_div(q_int(row.s_sc_max_mva), q_int(3)))
        x_grid  == z_grid
        x0_grid == q_mul(q_int(row.x0x_max), x_grid)
        r0_grid == q_mul(q_int(row.r0x0_max), x0_grid)
    IN  c_div(c_one, complex(r0_grid, x0_grid))

\* lines 504-549: the case after _add_ext_grid_sc_impedance_zero and the
\* error it raised
add_ext_grid_sc_impedance_zero(net, is_el, bus_lookup, ppc) ==
    LET eg           == bool_index(net.ext_grid.rows, is_el["ext_grid"])
        eg_buses_ppc == take(bus_lookup, column(eg, "bus"))
        y0           == [k \in DOMAIN eg |-> y0_grid(eg[k])]
        hit(r)       == \E k \in DOMAIN eg : eg_buses_ppc[k] = r
    IN  IF len(eg) = 0
        THEN [ppc |-> ppc, raised |-> "none"]
        ELSE IF "s_sc_max_mva" \notin net.ext_grid.columns
                 \/ "rx_max" \notin net.ext_grid.columns
        THEN [ppc |-> ppc, raised |-> "ValueError"]
        ELSE [ppc |-> [ppc EXCEPT !.bus =
                         [r \in DOMAIN ppc.bus |->
                            IF hit(r)
                            THEN [ppc.bus[r] EXCEPT
                                    !.GS = sum_by_group(eg_buses_ppc, column(y0, "real"), r),
                                    !.BS = sum_by_group(eg_buses_ppc, column(y0, "imag"), r)]
                            ELSE ppc.bus[r]]],
              raised |-> "none"]

\* line 369: the vector groups in the order groupby sorts them
VectorGroups ==
    <<"Dd", "Dy", "Dyn", "Dyn5", "YNd", "YNy", "YNyn", "Yd", "Yy", "Yyn", "Zz">>

\* lines 452-455: z_temp, za, zb and zc
pi_model(z1, z2, z3) ==
    [za |-> c_div(c_add(c_add(c_mul(z1, z2), c_mul(z2, z3)), c_mul(z1, z3)), z2),
     zb |-> c_div(c_add(c_add(c_mul(z1, z2), c_mul(z2, z3)), c_mul(z1, z3)), z1),
     zc |-> c_div(c_add(c_add(c_mul(z1, z2), c_mul(z2, z3)), c_mul(z1, z3)), z3)]

\* lines 448-455: the pi model of one transformer record
t_to_pi(tr) ==
    pi_model(c_scale(tr.si0_hv_partial, tr.z0_k),
             c_scale(q_sub(q_int(1), tr.si0_hv_partial), tr.z0_k),
             tr.z0_mag)

\* lines 463, 470, 479: y = -1j / za_tr, or -1j / zb_tr when za_tr < zb_tr
ynyn_y(za_tr, zb_tr) ==
    IF c_gt(zb_tr, za_tr) THEN c_div(minus_j, zb_tr) ELSE c_div(minus_j, za_tr)

\* lines 465, 473-474, 482-483: ys
ynyn_ys(za_tr, zb_tr) ==
    IF za_tr = zb_tr
    THEN c_zero
    ELSE IF c_gt(za_tr, zb_tr)
    THEN c_div(c_one, c_div(c_mul(za_tr, zb_tr), c_sub(za_tr, zb_tr)))
    ELSE c_div(c_one, c_div(c_mul(za_tr, zb_tr), c_sub(zb_tr, za_tr)))

\* x * in_service * int(ppc["baseMVA"]) over the group
times_in_service(x, g) ==
    [m \in DOMAIN g.in_service |-> q_mul(x, q_int(g.in_service[m] * g.baseMVA))]

\* lines 462-486: one iteration of the loop over zip(za, zb); it writes y to
\* BR_B of ppc_idx and appends ys for in_service at the group's buses
ynyn_step(acc, g, i) ==
    LET za_tr == g.pi[i].za
        zb_tr == g.pi[i].zb
        y     == ynyn_y(za_tr, zb_tr)
        ys    == ynyn_ys(za_tr, zb_tr)
    IN  [acc EXCEPT
           !.branch    = fill_column(@, g.ppc_idx, "BR_B", y),
           !.buses_all = r_(@, IF c_gt(za_tr, zb_tr) THEN g.hv_buses_ppc
                                                     ELSE g.lv_buses_ppc),
           !.gs_all    = r_(@, times_in_service(ys.real, g)),
           !.bs_all    = r_(@, times_in_service(ys.imag, g))]

\* line 461: the first n iterations
RECURSIVE ynyn_loop(_, _, _)
ynyn_loop(acc, g, n) ==
    IF n = 0 THEN acc ELSE ynyn_step(ynyn_loop(acc, g, n - 1), g, n - 1)

\* lines 370-427: the rows of one group of the groupby and what the group's
\* branches read of them
group_columns(ppc_idx, trafos, bus_lookup, baseMVA) ==
    [ppc_idx      |-> ppc_idx,
     ratio        |-> column(trafos, "ratio"),
     lv_buses_ppc |-> take(bus_lookup, column(trafos, "lv_bus")),
     hv_buses_ppc |-> take(bus_lookup, column(trafos, "hv_bus")),
     in_service   |-> [m \in DOMAIN trafos |-> IF trafos[m].in_service THEN 1 ELSE 0],
     pi           |-> [m \in DOMAIN trafos |-> t_to_pi(trafos[m])],
     y0_k         |-> [m \in DOMAIN trafos |-> c_div(c_one, trafos[m].z0_k)],
     y            |-> [m \in DOMAIN trafos |->
                         c_scale(q_int(baseMVA),
                                 c_div(c_one, c_add(trafos[m].z0_mag, trafos[m].z0_k)))],
     baseMVA      |-> baseMVA]

group_rows(trafo, vector_group) ==
    bool_index(arange(len(trafo)),
               [k \in DOMAIN trafo |-> trafo[k].vector_group = vector_group])

trafo_groupby(net, bus_lookup, vector_group) ==
    group_columns(group_rows(net.trafo, vector_group),
                  take(net.trafo, group_rows(net.trafo, vector_group)),
                  bus_lookup, int_baseMVA(net))

\* lines 391-402: F_BUS, T_BUS and TAP of the group's rows
bus_and_tap(branch, g) ==
    put_column(put_column(put_column(branch,
        g.ppc_idx, "F_BUS", g.hv_buses_ppc),
        g.ppc_idx, "T_BUS", g.lv_buses_ppc),
        g.ppc_idx, "TAP", g.ratio)

\* lines 446, 457-458: BR_STATUS, BR_R and BR_X of a YNyn group's rows
ynyn_rows(branch, g) ==
    put_column(put_column(put_column(branch,
        g.ppc_idx, "BR_STATUS", g.in_service),
        g.ppc_idx, "BR_R", [m \in DOMAIN g.pi |-> g.pi[m].zc.real]),
        g.ppc_idx, "BR_X", [m \in DOMAIN g.pi |-> g.pi[m].zc.imag])

\* np.hstack of buses_all, gs_all and bs_all with a group's terms
shunt(acc, branch, buses, gs, bs) ==
    [acc EXCEPT !.branch = branch, !.buses_all = r_(@, buses),
                !.gs_all = r_(@, gs), !.bs_all = r_(@, bs)]

\* lines 371-496 for the group g of vector_group
trafo_group_rows(acc, vector_group, g, off) ==
    IF vector_group \in {"Yy", "Yd", "Dy", "Dd"}
    THEN [acc EXCEPT !.branch = off]
    ELSE IF vector_group = "Dyn"
    THEN shunt(acc, bus_and_tap(off, g), g.lv_buses_ppc,
               [m \in DOMAIN g.y0_k |->
                   q_mul(g.y0_k[m].real, q_int(g.in_service[m] * g.baseMVA))],
               [m \in DOMAIN g.y0_k |->
                   q_mul(g.y0_k[m].imag, q_int(g.in_service[m] * g.baseMVA))])
    ELSE IF vector_group = "YNd"
    THEN shunt(acc, bus_and_tap(off, g), g.hv_buses_ppc,
               [m \in DOMAIN g.y0_k |->
                   q_mul(g.y0_k[m].real, q_int(g.in_service[m] * g.baseMVA))],
               [m \in DOMAIN g.y0_k |->
                   q_mul(g.y0_k[m].imag, q_int(g.in_service[m] * g.baseMVA))])
    ELSE IF vector_group = "Yyn"
    THEN shunt(acc, bus_and_tap(off, g), g.lv_buses_ppc,
               [m \in DOMAIN g.y |-> q_mul(g.y[m].real, q_int(g.in_service[m]))],
               [m \in DOMAIN g.y |-> q_mul(g.y[m].imag, q_int(g.in_service[m]))])
    ELSE IF vector_group = "YNyn"
    THEN ynyn_loop([acc EXCEPT !.branch = ynyn_rows(bus_and_tap(off, g), g)],
                   g, len(g.ppc_idx))
    ELSE IF vector_group = "YNy"
    THEN shunt(acc, bus_and_tap(off, g), g.hv_buses_ppc,
               [m \in DOMAIN g.y |-> q_mul(g.y[m].real, q_int(g.in_service[m]))],
               [m \in DOMAIN g.y |-> q_mul(g.y[m].imag, q_int(g.in_service[m]))])
    ELSE [acc EXCEPT !.branch = bus_and_tap(off, g), !.raised = "ValueError"]

\* lines 370-496: one group of the groupby; line 371 sets its rows out of
\* service first
trafo_group_of(acc, vector_group, g) ==
    trafo_group_rows(acc, vector_group, g,
                     fill_column(acc.branch, g.ppc_idx, "BR_STATUS", 0))

trafo_group(net, bus_lookup, acc, vector_group) ==
    trafo_group_of(acc, vector_group, trafo_groupby(net, bus_lookup, vector_group))

\* a group is processed unless an earlier group raised
next_group(net, bus_lookup, before, vector_group) ==
    IF before.raised # "none"
    THEN before
    ELSE trafo_group(net, bus_lookup, before, vector_group)

\* line 369: the keys groupby yields, the vector groups of the table in
\* sorted order
groupby_keys(trafo) ==
    SelectSeq(VectorGroups,
              LAMBDA vector_group :
                  \E k \in DOMAIN trafo : trafo[k].vector_group = vector_group)

\* line 369: the first n groups, up to the group that raises
RECURSIVE trafo_groups(_, _, _, _, _)
trafo_groups(net, bus_lookup, acc, keys, n) ==
    IF n = 0
    THEN acc
    ELSE next_group(net, bus_lookup, trafo_groups(net, bus_lookup, acc, keys, n - 1),
                    keys[n])

\* lines 498-500: the terms summed by bus and added to GS and BS, unless a
\* group raised
add_shunts(ppc, acc) ==
    IF acc.raised # "none"
    THEN [ppc |-> [ppc EXCEPT !.branch = acc.branch], raised |-> acc.raised]
    ELSE [ppc |-> [ppc EXCEPT
                     !.branch = acc.branch,
                     !.bus = [r \in DOMAIN ppc.bus |->
                        IF \E k \in DOMAIN acc.buses_all : acc.buses_all[k] = r
                        THEN [ppc.bus[r] EXCEPT
                                !.GS = q_add(@, sum_by_group(acc.buses_all, acc.gs_all, r)),
                                !.BS = q_add(@, sum_by_group(acc.buses_all, acc.bs_all, r))]
                        ELSE ppc.bus[r]]],
          raised |-> "none"]

\* lines 357-501: the case after _add_trafo_sc_impedance_zero and the error
\* it raised
add_trafo_sc_impedance_zero(net, bus_lookup, ppc) ==
    IF len(net.trafo) = 0
    THEN [ppc |-> ppc, raised |-> "none"]
    ELSE add_shunts(ppc,
                    trafo_groups(net, bus_lookup,
                                 [branch |-> ppc.branch, buses_all |-> << >>,
                                  gs_all |-> << >>, bs_all |-> << >>,
                                  raised |-> "none"],
                                 groupby_keys(net.trafo),
                                 Len(groupby_keys(net.trafo))))

\* line 350: a branch row as _build_branch_ppc_zero initialises it
default_branch_row ==
    [F_BUS |-> 0, T_BUS |-> 0, BR_R |-> q_int(0), BR_X |-> q_int(0), BR_B |-> c_zero,
     RATE_A |-> 250, TAP |-> 1, BR_STATUS |-> 1]

\* lines 353-354: calling NotImplemented is a TypeError
reject_trafo3w(net, r) ==
    IF r.raised = "none" /\ net.trafo3w > 0
    THEN [ppc |-> r.ppc, raised |-> "TypeError"]
    ELSE r

\* lines 326-354: the case after _build_branch_ppc_zero and the error it
\* raised; the nets have no lines, and a three-winding transformer takes
\* three branch rows
build_branch_ppc_zero(net, bus_lookup, ppc) ==
    reject_trafo3w(net,
        add_trafo_sc_impedance_zero(net, bus_lookup,
            [ppc EXCEPT !.branch =
                [k \in 0..(len(net.trafo) + 3 * net.trafo3w - 1) |->
                    default_branch_row]]))

\* lines 86-90: the branch builder runs if the external grids did not raise
after_ext_grid(net, bus_lookup, eg) ==
    IF eg.raised # "none" THEN eg ELSE build_branch_ppc_zero(net, bus_lookup, eg.ppc)

\* ------------------------------------------------------------------ state

VARIABLES
    built,        \* what the element builders make of the net (lines 83-120):
                  \* the bus, gen and branch tables and the bus lookup
    net_index,    \* net[element].index.values of ext_grid and gen
    is_elements,  \* net["_is_elements"]
    sequence,     \* the sequence argument of the compiles: "None" or "0"
    net_zero,     \* the tables the zero-sequence functions read: sn_kva,
                  \* ext_grid, trafo and the number of trafo3w; << >> if unused
    lookups,      \* net["_pd2ppc_lookups"]
    net_ppc,      \* net["_ppc"] (net["_ppc<sequence>"]), << >> while there is none
    ppci,         \* the internal case the last call returned
    e2i,          \* the map e2i of the last _ppc2ppci
    recycle,      \* net["_options"]["recycle"] as the last update read it
    raised,       \* the error the last call raised, "none" if it returned
    last          \* the last call

vars ==
    <<built, net_index, is_elements, sequence, net_zero, lookups, net_ppc, ppci, e2i,
      recycle, raised, last>>

net_inputs == <<built, net_index, is_elements, sequence, net_zero>>

NoCase == << >>

NoZeroNet == << >>

NoLookups ==
    [bus |-> << >>, ext_grid |-> << >>, gen |-> << >>, sgen_controllable |-> << >>,
     load_controllable |-> << >>, storage_controllable |-> << >>]

\* ---------------------------------------------------------------- actions

\* lines 74-120: the external case as the builders leave it in the dict that
\* _init_ppc stored on the net, and the error a builder raised
built_case ==
    IF sequence # "0"
    THEN [ppc |-> [init_ppc EXCEPT !.bus = built.bus, !.gen = built.gen,
                                   !.branch = built.branch],
          raised |-> "none"]
    ELSE after_ext_grid(net_zero, built.bus_lookup,
            add_ext_grid_sc_impedance_zero(net_zero, is_elements, built.bus_lookup,
                [init_ppc EXCEPT !.bus = built.bus, !.gen = built.gen]))

\* the bus lookup _build_bus_ppc writes
built_lookups == [lookups EXCEPT !["bus"] = built.bus_lookup]

\* lines 34-130: net["_ppc..."] is the new dict from line 74 on, so it is the
\* case as far as it was built when a builder raises
pd2ppc ==
    /\ \E b \in {built_case} :
          IF b.raised = "none" /\ ~ppc2ppci_ok(b.ppc, built_lookups)
          THEN /\ net_ppc' = ppc2ppci_raised(b.ppc, built_lookups).ppc
               /\ lookups' = ppc2ppci_raised(b.ppc, built_lookups).lookups
               /\ raised' = "IndexError"
               /\ UNCHANGED <<ppci, e2i>>
          ELSE /\ \E sort_gens \in argsort(column(renumbered_gen(b.ppc), "GEN_BUS")) :
                     LET r == IF b.raised = "none"
                              THEN ppc2ppci(b.ppc, init_ppc, built_lookups, net_index,
                                            is_elements, sort_gens)
                              ELSE [ppc |-> b.ppc, ppci |-> ppci,
                                    lookups |-> built_lookups, e2i |-> e2i]
                     IN  /\ net_ppc' = r.ppc
                         /\ ppci' = r.ppci
                         /\ lookups' = r.lookups
                         /\ e2i' = r.e2i
               /\ raised' = b.raised
    /\ last' = "pd2ppc"
    /\ UNCHANGED <<net_inputs, recycle>>

\* the solver run between a compile and an update fills the stored case's
\* internal cache from the internal case it solved
solver_populate_internal ==
    /\ last = "pd2ppc"
    /\ raised = "none"
    /\ net_ppc' = [net_ppc EXCEPT !.internal = ppci.internal]
    /\ last' = "solver"
    /\ UNCHANGED <<net_inputs, lookups, ppci, e2i, recycle, raised>>

\* lines 303-310: the builders write the operating point op into the value
\* columns of the stored case; the transformer values only if Ybus is not recycled
set_column(table, col, v) == [k \in DOMAIN table |-> [table[k] EXCEPT ![col] = v]]

\* a slip: line 308 without the `not`
update_values_if_recycled(ppc, op, recycle_Ybus) ==
    [ppc EXCEPT !.bus = set_column(@, "PD", op),
                !.gen = set_column(@, "PG", op),
                !.branch = IF recycle_Ybus THEN set_column(@, "TAP", op) ELSE @]

update_values(ppc, op, recycle_Ybus) ==
    [ppc EXCEPT !.bus = set_column(@, "PD", op),
                !.gen = set_column(@, "PG", op),
                !.branch = IF ~recycle_Ybus THEN set_column(@, "TAP", op) ELSE @]

\* a slip: line 316 assigns the in-service rows to ppc['bus'] instead of ppci['bus']
update_ppc_result_drops_oos(stored, op, recycle_Ybus) ==
    LET ppc   == update_values(stored, op, recycle_Ybus)
        brs   == ppc.internal.branch_is
        gs    == ppc.internal.gen_is
        ok    == bool_index_ok(ppc.branch, brs) /\ bool_index_ok(ppc.gen, gs)
        bus   == bool_index(ppc.bus, invert(oos_busses(ppc.bus)))
    IN  [ppc  |-> [ppc EXCEPT !.bus = bus],
         ok   |-> ok,
         ppci |-> IF ok
                  THEN [stored EXCEPT !.branch = bool_index(ppc.branch, brs),
                                      !.gen = bool_index(ppc.gen, gs)]
                  ELSE NoCase]

\* lines 288-323: the stored case and the returned internal case after
\* _update_ppc; ok is FALSE when the slicing by a stored mask raises IndexError
update_ppc_result(stored, op, recycle_Ybus) ==
    LET ppc   == update_values(stored, op, recycle_Ybus)
        ppci0 == stored
        brs   == ppc.internal.branch_is
        gs    == ppc.internal.gen_is
        ok    == bool_index_ok(ppc.branch, brs) /\ bool_index_ok(ppc.gen, gs)
    IN  [ppc  |-> ppc,
         ok   |-> ok,
         ppci |-> IF ok
                  THEN [ppci0 EXCEPT
                          !.bus = bool_index(ppc.bus, invert(oos_busses(ppc.bus))),
                          !.branch = bool_index(ppc.branch, brs),
                          !.gen = bool_index(ppc.gen, gs)]
                  ELSE NoCase]

update_ppc ==
    /\ net_ppc # NoCase
    /\ \E recycle_Ybus \in BOOLEAN, op \in OpValues :
          LET r == update_ppc_result(net_ppc, op, recycle_Ybus)
          IN  /\ net_ppc' = r.ppc
              /\ ppci' = IF r.ok THEN r.ppci ELSE ppci
              /\ raised' = IF r.ok THEN "none" ELSE "IndexError"
              /\ recycle' = [Ybus |-> recycle_Ybus]
    /\ last' = "update_ppc"
    /\ UNCHANGED <<net_inputs, lookups, e2i>>

Next == pd2ppc \/ solver_populate_internal \/ update_ppc

\* ----------------------------------------------------------------- inputs

Perms(n) ==
    {p \in [0..(n - 1) -> 0..(n - 1)] : \A i, j \in 0..(n - 1) : i # j => p[i] # p[j]}

BusTypes == {PQ, NONE}

\* a bus table of NBus rows; BASE_KV tells the rows apart
bus_table(ids, types) ==
    [i \in 0..(NBus - 1) |->
        [BUS_I |-> ids[i], BUS_TYPE |-> types[i], BASE_KV |-> i, PD |-> 0]]

\* one branch row; RATE_A tells the rows apart
branch_row(k, f, t, status) ==
    [F_BUS |-> f, T_BUS |-> t, BR_STATUS |-> status, RATE_A |-> k, TAP |-> 0]

\* one generator row; QMAX is its position in the table as built
gen_row(k, b, status) == [GEN_BUS |-> b, GEN_STATUS |-> status, QMAX |-> k, PG |-> 0]

\* _build_bus_ppc: net bus i is the bus of row i
dense_bus_lookup(bus) == column(bus, "BUS_I")

\* the compiles of the behaviour are _pd2ppc(net)
PositiveSequence ==
    /\ sequence = "None"
    /\ net_zero = NoZeroNet

InitCalls ==
    /\ lookups = NoLookups
    /\ net_ppc = NoCase
    /\ ppci = NoCase
    /\ e2i = << >>
    /\ recycle = [Ybus |-> FALSE]
    /\ raised = "none"
    /\ last = "init"

BranchStatus == {0, 1, 2}

GenStatus == {0, 1}

all_true(n) == [k \in 0..(n - 1) |-> TRUE]

\* any numbering and typing of the buses; a branch between any two buses with
\* any status and an in-service branch back; an external grid at the first
\* branch's to-bus and a generator at its from-bus
Init ==
    /\ \E ids \in Perms(NBus), types \in [0..(NBus - 1) -> BusTypes],
          f, t \in 0..(NBus - 1), status \in BranchStatus :
          built = [bus |-> bus_table(ids, types),
                   branch |-> [k \in 0..1 |-> IF k = 0 THEN branch_row(k, f, t, status)
                                                       ELSE branch_row(k, t, f, 1)],
                   gen |-> [k \in 0..1 |-> gen_row(k, IF k = 0 THEN t ELSE f, 1)],
                   bus_lookup |-> dense_bus_lookup(bus_table(ids, types))]
    /\ net_index = [ext_grid |-> arange(1), gen |-> arange(1)]
    /\ is_elements = [ext_grid |-> all_true(1), gen |-> all_true(1)]
    /\ PositiveSequence
    /\ InitCalls

\* buses numbered in row order with any typing; up to MaxGen external grids,
\* at any buses and with any status
InitGenOrder ==
    /\ \E types \in [0..(NBus - 1) -> BusTypes], n \in 1..MaxGen :
          \E b \in [0..(n - 1) -> 0..(NBus - 1)], st \in [0..(n - 1) -> GenStatus] :
              /\ built = [bus |-> bus_table(arange(NBus), types),
                          branch |-> << >>,
                          gen |-> [k \in 0..(n - 1) |-> gen_row(k, b[k], st[k])],
                          bus_lookup |-> arange(NBus)]
              /\ net_index = [ext_grid |-> arange(n), gen |-> << >>]
              /\ is_elements = [ext_grid |-> all_true(n), gen |-> << >>]
    /\ PositiveSequence
    /\ InitCalls

\* the element tables: ids 0..k-1 with any in-service mask
Masks == UNION {[0..(k - 1) -> BOOLEAN] : k \in 0..(MaxId + 1)}

\* the in-service controllable elements: ascending ids
IdLists ==
    {bool_index(arange(MaxId + 1), m) : m \in [0..MaxId -> BOOLEAN]}

DenseIdLists == {arange(k) : k \in 0..(MaxId + 1)}

\* net["_is_elements"]: without the controllable keys (power flow), or with them (opf)
IsElements ==
    {[ext_grid |-> e, gen |-> g] : e \in Masks, g \in Masks}
    \cup {[ext_grid |-> e, gen |-> g, sgen_controllable |-> s,
           load_controllable |-> l, storage_controllable |-> c] :
            e \in Masks, g \in Masks, s \in IdLists, l \in DenseIdLists,
            c \in DenseIdLists}

\* the buses a generator row may sit at in InitGenLookup
GenBuses == {0, 1}

\* all buses in service; any element tables with at most MaxGen in-service
\* elements together, their rows in block order at any of two buses
InitGenLookup ==
    /\ \E is_el \in {x \in IsElements : storage_end(x) <= MaxGen} :
          \E b \in [0..(storage_end(is_el) - 1) -> GenBuses] :
              /\ is_elements = is_el
              /\ net_index = [ext_grid |-> arange(len(is_el["ext_grid"])),
                              gen |-> arange(len(is_el["gen"]))]
              /\ built = [bus |-> bus_table(arange(NBus), [i \in 0..(NBus - 1) |-> PQ]),
                          branch |-> << >>,
                          gen |-> [k \in DOMAIN b |-> gen_row(k, b[k], 1)],
                          bus_lookup |-> arange(NBus)]
    /\ PositiveSequence
    /\ InitCalls

\* the values of si0_hv_partial
Partitions == {frac(1, 4), frac(1, 2), frac(3, 4)}

\* the vector groups _add_trafo_sc_impedance_zero implements
ZeroGroups == {"Dyn", "YNd", "YNy", "YNyn", "Yy", "Yyn"}

\* one row of net.trafo with z0_k and z0_mag as lines 404-427 compute them
\* from the row's columns
trafo_record(vector_group, hv_bus, lv_bus, si0_hv_partial, in_service) ==
    [vector_group |-> vector_group, hv_bus |-> hv_bus, lv_bus |-> lv_bus,
     si0_hv_partial |-> si0_hv_partial, z0_k |-> complex(q_int(1), q_int(1)),
     z0_mag |-> complex(q_int(0), q_int(4)), ratio |-> 1, in_service |-> in_service]

ExtGridColumns == {"s_sc_max_mva", "rx_max"}

\* net.ext_grid: one external grid at bus 0, with the given short-circuit columns
ext_grid_table(columns) ==
    [columns |-> columns,
     rows |-> [k \in 0..0 |-> [bus |-> 0, s_sc_max_mva |-> 3, x0x_max |-> 1,
                               r0x0_max |-> 1]]]

\* buses numbered in row order, all in service, without shunts; the
\* generator row of the external grid if it is in service
zero_built(eg_in_service) ==
    [bus |-> [i \in 0..(NBus - 1) |->
                [BUS_I |-> i, BUS_TYPE |-> PQ, BASE_KV |-> i, PD |-> 0,
                 GS |-> q_int(0), BS |-> q_int(0)]],
     branch |-> << >>,
     gen |-> IF eg_in_service THEN [k \in 0..0 |-> gen_row(0, 0, 1)] ELSE << >>,
     bus_lookup |-> arange(NBus)]

\* zero-sequence compiles of a net with up to MaxTrafo transformers of any
\* implemented vector group, partition and status between neighbouring buses
InitZero ==
    /\ \E n \in 1..MaxTrafo :
          \E vg \in [0..(n - 1) -> ZeroGroups], si0 \in [0..(n - 1) -> Partitions],
             ins \in [0..(n - 1) -> BOOLEAN], hv \in [0..(n - 1) -> 0..(NBus - 2)] :
              net_zero = [sn_kva |-> 1000,
                          ext_grid |-> ext_grid_table(ExtGridColumns),
                          trafo |-> [m \in 0..(n - 1) |->
                                       trafo_record(vg[m], hv[m], hv[m] + 1, si0[m], ins[m])],
                          trafo3w |-> 0]
    /\ built = zero_built(TRUE)
    /\ net_index = [ext_grid |-> arange(1), gen |-> << >>]
    /\ is_elements = [ext_grid |-> all_true(1), gen |-> << >>]
    /\ sequence = "0"
    /\ InitCalls

\* the vector groups the user may write into net.trafo
EditGroups == {"YNyn", "Dyn5", "Zz"}

\* the nets one edit away: another set of short-circuit columns, a
\* three-winding transformer more or less, another vector group
EditedNets(net) ==
    {[net EXCEPT !.ext_grid.columns = c] : c \in SUBSET ExtGridColumns}
    \cup {[net EXCEPT !.trafo3w = n] : n \in 0..1}
    \cup {[net EXCEPT !.trafo[m].vector_group = vg] :
            m \in DOMAIN net.trafo, vg \in EditGroups}

\* the user edits the net between two compiles
net_edit ==
    /\ last = "pd2ppc"
    /\ \E net \in EditedNets(net_zero) \ {net_zero} : net_zero' = net
    /\ last' = "net_edit"
    /\ UNCHANGED <<built, net_index, is_elements, sequence, lookups, net_ppc, ppci,
                   e2i, recycle, raised>>

\* zero-sequence compiles of a net with MaxTrafo transformers, with any of
\* the short-circuit columns, vector groups and three-winding transformers
InitZeroEdit ==
    /\ \E c \in SUBSET ExtGridColumns, n \in 0..1,
          vg \in [0..(MaxTrafo - 1) -> EditGroups] :
          net_zero = [sn_kva |-> 1000,
                      ext_grid |-> ext_grid_table(c),
                      trafo |-> [m \in 0..(MaxTrafo - 1) |->
                                   trafo_record(vg[m], m % (NBus - 1), (m % (NBus - 1)) + 1,
                                                IF m % 2 = 0 THEN frac(1, 4)
                                                             ELSE frac(3, 4),
                                                TRUE)],
                      trafo3w |-> n]
    /\ \E eg_in_service \in BOOLEAN :
          /\ built = zero_built(eg_in_service)
          /\ is_elements = [ext_grid |-> [k \in 0..0 |-> eg_in_service], gen |-> << >>]
    /\ net_index = [ext_grid |-> arange(1), gen |-> << >>]
    /\ sequence = "0"
    /\ InitCalls

\* bus rows with unique identifiers that may leave gaps (up to NBus, one
\* more than dense numbering needs) and any typing; a branch between any two
\* of the buses and an in-service branch back; an external grid and a
\* generator at the buses of the first branch
InitSparse ==
    /\ \E ids \in {x \in [0..(NBus - 1) -> 0..NBus] :
                      \A i, j \in 0..(NBus - 1) : x[i] = x[j] => i = j},
          types \in [0..(NBus - 1) -> BusTypes], f, t \in 0..(NBus - 1) :
          built = [bus |-> bus_table(ids, types),
                   branch |-> [k \in 0..1 |-> IF k = 0 THEN branch_row(k, ids[f], ids[t], 1)
                                                       ELSE branch_row(k, ids[t], ids[f], 1)],
                   gen |-> [k \in 0..1 |-> gen_row(k, IF k = 0 THEN ids[t] ELSE ids[f], 1)],
                   bus_lookup |-> dense_bus_lookup(bus_table(ids, types))]
    /\ net_index = [ext_grid |-> arange(1), gen |-> arange(1)]
    /\ is_elements = [ext_grid |-> all_true(1), gen |-> all_true(1)]
    /\ PositiveSequence
    /\ InitCalls

\* the entries of a bus lookup: a row of ppc['bus'] or "not present"
LookupEntries == -1..(NBus - 1)

\* any numbering and typing of the buses and any bus lookup over the net bus
\* ids 0..NBus: ids that are absent from the net, and ids that share a row
\* (fused buses); branches and generators as in Init
InitLookup ==
    /\ \E ids \in Perms(NBus), types \in [0..(NBus - 1) -> BusTypes],
          lookup \in [0..NBus -> LookupEntries] :
          built = [bus |-> bus_table(ids, types),
                   branch |-> [k \in 0..1 |-> branch_row(k, k, 1 - k, 1)],
                   gen |-> [k \in 0..1 |-> gen_row(k, 1 - k, 1)],
                   bus_lookup |-> lookup]
    /\ net_index = [ext_grid |-> arange(1), gen |-> arange(1)]
    /\ is_elements = [ext_grid |-> all_true(1), gen |-> all_true(1)]
    /\ PositiveSequence
    /\ InitCalls

Spec == Init /\ [][Next]_vars

SpecLookup == InitLookup /\ [][pd2ppc]_vars

SpecSparse == InitSparse /\ [][pd2ppc]_vars

SpecZero == InitZero /\ [][pd2ppc]_vars

SpecZeroEdit == InitZeroEdit /\ [][pd2ppc \/ net_edit]_vars

SpecGenOrder == InitGenOrder /\ [][pd2ppc]_vars

SpecGenLookup == InitGenLookup /\ [][pd2ppc]_vars

\* ----------------------------------------------------------------- claims

\* the last call was a compile, and it returned
Compiled == last = "pd2ppc" /\ raised = "none"

\* the row of the bus table as built that carries the bus id
built_bus(id) == built.bus[CHOOSE i \in DOMAIN built.bus : built.bus[i].BUS_I = id]

in_service_bus(id) == built_bus(id).BUS_TYPE # NONE

\* the number of buses not typed NONE
n_in_service == Cardinality({i \in DOMAIN built.bus : built.bus[i].BUS_TYPE # NONE})

\* C1: after _ppc2ppci a branch row of the external case is a row of
\* ppci['branch'] if and only if its BR_STATUS is positive and its from-bus and
\* its to-bus are not typed NONE, and ppci['internal']['branch_is'] is exactly
\* this predicate.
C1_BranchIncludedIffPositive ==
    Compiled =>
        \A k \in DOMAIN built.branch :
            LET want == /\ built.branch[k].BR_STATUS > 0
                        /\ in_service_bus(built.branch[k].F_BUS)
                        /\ in_service_bus(built.branch[k].T_BUS)
            IN  /\ (\E j \in DOMAIN ppci.branch : ppci.branch[j].RATE_A = k) <=> want
                /\ ppci.internal.branch_is[k] = want

\* C2: with BUS_I a permutation of 0..N-1 and n buses not typed NONE, e2i is a
\* bijection on 0..N-1 that sends the in-service bus ids onto [0, n) in their
\* row order and the NONE-typed bus ids onto [n, N), and ppci['bus'] has
\* exactly n rows, numbered 0..n-1 in order.
C2_RenumberingBijection ==
    Compiled =>
        LET N == len(built.bus)
            id(i) == built.bus[i].BUS_I
        IN  /\ DOMAIN e2i = 0..(N - 1)
            /\ {e2i[v] : v \in DOMAIN e2i} = 0..(N - 1)
            /\ \A i \in DOMAIN built.bus :
                  IF built.bus[i].BUS_TYPE # NONE
                  THEN e2i[id(i)] \in 0..(n_in_service - 1)
                  ELSE e2i[id(i)] \in n_in_service..(N - 1)
            /\ \A i, j \in DOMAIN built.bus :
                  (i < j /\ built.bus[i].BUS_TYPE # NONE /\ built.bus[j].BUS_TYPE # NONE)
                      => e2i[id(i)] < e2i[id(j)]
            /\ len(ppci.bus) = n_in_service
            /\ \A k \in DOMAIN ppci.bus : ppci.bus[k].BUS_I = k

\* a compile of a case with in-service and NONE-typed buses whose numbering
\* the renumbering changes
C2_Witness ==
    /\ Compiled
    /\ n_in_service \in 1..(len(built.bus) - 1)
    /\ \E v \in DOMAIN e2i : e2i[v] # v
    /\ \E i \in DOMAIN built.bus : built.bus[i].BUS_I # i

\* C3: _ppc2ppci keeps what every bus reference points at: each rewritten
\* F_BUS, T_BUS and GEN_BUS is e2i of the original reference, and the bus row
\* found there in the reordered ppc['bus'] is the row that carried the
\* referenced BUS_I before the compile.
same_bus(new_ref, old_ref) ==
    /\ new_ref = e2i[old_ref]
    /\ new_ref \in DOMAIN net_ppc.bus
    /\ net_ppc.bus[new_ref].BASE_KV = built_bus(old_ref).BASE_KV
    /\ net_ppc.bus[new_ref].BUS_TYPE = built_bus(old_ref).BUS_TYPE

C3_ReferencesPreserved ==
    Compiled =>
        /\ DOMAIN net_ppc.branch = DOMAIN built.branch
        /\ \A k \in DOMAIN built.branch :
              /\ same_bus(net_ppc.branch[k].F_BUS, built.branch[k].F_BUS)
              /\ same_bus(net_ppc.branch[k].T_BUS, built.branch[k].T_BUS)
        /\ DOMAIN net_ppc.gen = DOMAIN built.gen
        /\ \A p \in DOMAIN net_ppc.gen :
              same_bus(net_ppc.gen[p].GEN_BUS, built.gen[net_ppc.gen[p].QMAX].GEN_BUS)

\* a compile that rewrote a branch's bus references
C3_Witness ==
    /\ Compiled
    /\ \E k \in DOMAIN built.branch :
          /\ net_ppc.branch[k].F_BUS # built.branch[k].F_BUS
          /\ net_ppc.branch[k].T_BUS # built.branch[k].T_BUS
          /\ net_ppc.branch[k].F_BUS # net_ppc.branch[k].T_BUS
    /\ \E p \in DOMAIN net_ppc.gen : net_ppc.gen[p].GEN_BUS # built.gen[p].GEN_BUS

\* the net bus ids whose bus is typed NONE when _ppc2ppci runs
isolated_ids ==
    {i \in DOMAIN built.bus_lookup :
        built.bus_lookup[i] >= 0 /\ ~in_service_bus(built.bus_lookup[i])}

\* C6 as stated: after a compile with a NONE-typed bus the internal case holds
\* only the other buses and the bus lookup of the excluded bus is the "not
\* present" sentinel.
C6_ExcludedBusNotPresent ==
    Compiled =>
        \A i \in isolated_ids :
            /\ len(ppci.bus) = n_in_service
            /\ lookups["bus"][i] < 0

\* C6 as amended: the internal case holds only the other buses, and the bus
\* lookup of the excluded bus is the index of its row in the tail of the
\* reordered ppc['bus'], an index that is no row of ppci['bus'].
C6_ExcludedBusAtTail ==
    Compiled =>
        \A i \in isolated_ids :
            LET row == built_bus(built.bus_lookup[i])
            IN  /\ len(ppci.bus) = n_in_service
                /\ \A j \in DOMAIN ppci.bus : ppci.bus[j].BASE_KV # row.BASE_KV
                /\ lookups["bus"][i] \in n_in_service..(len(net_ppc.bus) - 1)
                /\ net_ppc.bus[lookups["bus"][i]].BASE_KV = row.BASE_KV
                /\ net_ppc.bus[lookups["bus"][i]].BUS_TYPE = NONE

\* the scenario: buses 0 and 1 in service, the last bus isolated
C6_Witness ==
    /\ Compiled
    /\ \A i \in DOMAIN built.bus : built.bus[i].BUS_I = i
    /\ isolated_ids = {len(built.bus) - 1}
    /\ len(ppci.bus) = 2

\* C7: an update that directly follows a compile slices ppc['branch'] and
\* ppc['gen'] by the branch_is and gen_is that compile computed.
C7_UpdateUsesCompiledMasks ==
    [][(Compiled /\ last' = "update_ppc") =>
          /\ raised' = "none"
          /\ ppci'.branch = bool_index(net_ppc'.branch, ppci.internal.branch_is)
          /\ ppci'.gen = bool_index(net_ppc'.gen, ppci.internal.gen_is)]_vars

\* C8: _update_ppc leaves the row order and BUS_I of ppc['bus'], the F_BUS and
\* T_BUS of ppc['branch'], the row order and GEN_BUS of ppc['gen'] and the
\* lookup tables as they were.
C8_UpdateKeepsNumbering ==
    [][last' = "update_ppc" =>
          /\ column(net_ppc'.bus, "BUS_I") = column(net_ppc.bus, "BUS_I")
          /\ column(net_ppc'.bus, "BASE_KV") = column(net_ppc.bus, "BASE_KV")
          /\ column(net_ppc'.bus, "BUS_TYPE") = column(net_ppc.bus, "BUS_TYPE")
          /\ column(net_ppc'.branch, "F_BUS") = column(net_ppc.branch, "F_BUS")
          /\ column(net_ppc'.branch, "T_BUS") = column(net_ppc.branch, "T_BUS")
          /\ column(net_ppc'.branch, "RATE_A") = column(net_ppc.branch, "RATE_A")
          /\ column(net_ppc'.gen, "GEN_BUS") = column(net_ppc.gen, "GEN_BUS")
          /\ column(net_ppc'.gen, "QMAX") = column(net_ppc.gen, "QMAX")
          /\ lookups' = lookups]_vars

\* an update that returned, after a compile that moved a NONE-typed bus to
\* the tail, and that wrote new values
C8_Witness ==
    /\ last = "update_ppc"
    /\ raised = "none"
    /\ \E v \in DOMAIN e2i : e2i[v] # v
    /\ n_in_service \in 1..(len(built.bus) - 1)
    /\ \E i \in DOMAIN net_ppc.bus : net_ppc.bus[i].PD # 0
    /\ \E k \in DOMAIN net_ppc.branch : net_ppc.branch[k].TAP # 0

\* C4: the rows of ppci['gen'] are non-decreasing in GEN_BUS.
C4_InternalGenSorted ==
    Compiled =>
        \A i, j \in DOMAIN ppci.gen : i < j => ppci.gen[i].GEN_BUS <= ppci.gen[j].GEN_BUS

\* a compile that had to move generator rows, dropped a row by gen_is and
\* kept rows at different buses
C4_Witness ==
    /\ Compiled
    /\ \E i, j \in DOMAIN built.gen : i < j /\ e2i[built.gen[i].GEN_BUS] > e2i[built.gen[j].GEN_BUS]
    /\ len(ppci.gen) < len(net_ppc.gen)
    /\ \E i, j \in DOMAIN ppci.gen : ppci.gen[i].GEN_BUS < ppci.gen[j].GEN_BUS

\* the subtypes in block order, the first generator row of each block and the
\* ids of its in-service elements
Subtypes ==
    <<"ext_grid", "gen", "sgen_controllable", "load_controllable", "storage_controllable">>

block_ids(element) ==
    IF element \in DOMAIN is_elements
    THEN pandapower_index(net_index, is_elements, element)
    ELSE << >>

RECURSIVE block_start(_)
block_start(b) == IF b = 1 THEN 0 ELSE block_start(b - 1) + len(block_ids(Subtypes[b - 1]))

\* the position in ppc['gen'] of the row built at position q
row_of(q) == CHOOSE p \in DOMAIN net_ppc.gen : net_ppc.gen[p].QMAX = q

\* the in-service elements: <<block, k>> is the k-th in-service id of the block
InService == {bk \in (1..5) \X (0..MaxGen) : bk[2] \in DOMAIN block_ids(Subtypes[bk[1]])}

resolves_to_built_row(bk) ==
    LET element == Subtypes[bk[1]]
        id      == block_ids(element)[bk[2]]
    IN  /\ id \in DOMAIN lookups[element]
        /\ lookups[element][id] = row_of(block_start(bk[1]) + bk[2])

resolved(bk) == lookups[Subtypes[bk[1]]][block_ids(Subtypes[bk[1]])[bk[2]]]

\* the ids of the element tables that are not in service
OutOfService(element) ==
    {net_index[element][k] : k \in {j \in DOMAIN net_index[element] : ~is_elements[element][j]}}

\* C5 as stated: every in-service element's lookup is the position in the
\* sorted ppc['gen'] of the row built for it, distinct elements have distinct
\* rows, and every id that is not in service resolves to -1.
C5_LookupResolvesOrSentinel ==
    Compiled =>
        /\ \A bk \in InService : resolves_to_built_row(bk)
        /\ \A bk, bl \in InService : bk # bl => resolved(bk) # resolved(bl)
        /\ \A element \in {"ext_grid", "gen"} :
              \A id \in OutOfService(element) :
                  id \in DOMAIN lookups[element] /\ lookups[element][id] = -1

\* C5 as amended: the same for the in-service elements; a subtype with an
\* in-service element has a lookup of length (largest in-service id) + 1 in
\* which every other entry is -1, so an out-of-service id resolves to -1 only
\* below the largest in-service id, and a subtype without in-service elements
\* gets no lookup pass.
C5_LookupResolvesWithinTable ==
    Compiled =>
        /\ \A bk \in InService : resolves_to_built_row(bk)
        /\ \A bk, bl \in InService : bk # bl => resolved(bk) # resolved(bl)
        /\ \A b \in 1..5 :
              LET ids == block_ids(Subtypes[b])
                  lk  == lookups[Subtypes[b]]
              IN  IF len(ids) = 0
                  THEN lk = << >>
                  ELSE /\ DOMAIN lk = 0..max(ids)
                       /\ \A v \in DOMAIN lk :
                             (\A k \in DOMAIN ids : ids[k] # v) => lk[v] = -1

\* a compile with three in-service elements of different subtypes whose rows
\* the sort moved round, an out-of-service id inside a table and one beyond it
C5_Witness ==
    /\ Compiled
    /\ Cardinality({bk[1] : bk \in InService}) >= 2
    /\ \E p \in DOMAIN net_ppc.gen :
          net_ppc.gen[p].QMAX # p /\ net_ppc.gen[net_ppc.gen[p].QMAX].QMAX # p
    /\ \E id \in OutOfService("gen") : id \in DOMAIN lookups["gen"]
    /\ \E id \in OutOfService("ext_grid") : id \notin DOMAIN lookups["ext_grid"]

\* the rows of net.trafo with vector group YNyn
YNyn == {m \in DOMAIN net_zero.trafo : net_zero.trafo[m].vector_group = "YNyn"}

\* transformer m's own pair (za, zb), the bus of its own shunt term and the
\* term itself
own_pi(m) == t_to_pi(net_zero.trafo[m])

own_bus(m) ==
    IF c_gt(own_pi(m).za, own_pi(m).zb)
    THEN built.bus_lookup[net_zero.trafo[m].hv_bus]
    ELSE built.bus_lookup[net_zero.trafo[m].lv_bus]

own_ys(m) ==
    c_scale(q_int((IF net_zero.trafo[m].in_service THEN 1 ELSE 0) * int_baseMVA(net_zero)),
            ynyn_ys(own_pi(m).za, own_pi(m).zb))

\* the bus table before the transformers add their shunt terms
bus_before_trafo ==
    add_ext_grid_sc_impedance_zero(net_zero, is_elements, built.bus_lookup,
        [init_ppc EXCEPT !.bus = built.bus, !.gen = built.gen]).ppc.bus

\* the terms a table of YNyn transformers appends to buses_all
ynyn_terms ==
    trafo_group(net_zero, built.bus_lookup,
                [branch |-> [k \in DOMAIN net_zero.trafo |-> default_branch_row],
                 buses_all |-> << >>, gs_all |-> << >>, bs_all |-> << >>,
                 raised |-> "none"],
                "YNyn").buses_all

\* C10: after a zero-sequence compile the branch row of every YNyn
\* transformer carries the BR_B of its own pair (za, zb); a YNyn group of k
\* transformers appends k shunt terms, and where all transformers are YNyn
\* every bus has gained exactly the terms of the transformers whose own bus
\* it is, each computed from that transformer's own pair and in-service flag.
C10_YNynPerRecord ==
    (Compiled /\ sequence = "0") =>
        /\ \A m \in YNyn :
              net_ppc.branch[m].BR_B = ynyn_y(own_pi(m).za, own_pi(m).zb)
        /\ YNyn = DOMAIN net_zero.trafo =>
              /\ len(ynyn_terms) = len(net_zero.trafo)
              /\ \A r \in DOMAIN net_ppc.bus :
                    LET own == {m \in YNyn : own_bus(m) = r}
                        gs  == [m \in DOMAIN net_zero.trafo |-> own_ys(m).real]
                        bs  == [m \in DOMAIN net_zero.trafo |-> own_ys(m).imag]
                        at  == [m \in DOMAIN net_zero.trafo |-> own_bus(m)]
                    IN  /\ net_ppc.bus[r].GS =
                              q_add(bus_before_trafo[r].GS, sum_by_group(at, gs, r))
                        /\ net_ppc.bus[r].BS =
                              q_add(bus_before_trafo[r].BS, sum_by_group(at, bs, r))

\* C9: a compile that raises leaves the case a successful compile stored on
\* the net as it was.
C9_FailedCompileKeepsStoredCase ==
    [][(net_ppc # NoCase /\ raised = "none" /\ last' = "pd2ppc" /\ raised' # "none")
          => net_ppc' = net_ppc]_vars

\* the bus identifiers of the external case as built
built_ids == {built.bus[i].BUS_I : i \in DOMAIN built.bus}

\* C11: for an external case with unique bus identifiers, dense or not, the
\* compile returns, e2i is defined on every identifier, and every F_BUS,
\* T_BUS and GEN_BUS is rewritten to the row of the bus it referred to.
C11_SparseIdsCovered ==
    last = "pd2ppc" =>
        /\ raised = "none"
        /\ built_ids \subseteq DOMAIN e2i
        /\ \A k \in DOMAIN built.branch :
              /\ same_bus(net_ppc.branch[k].F_BUS, built.branch[k].F_BUS)
              /\ same_bus(net_ppc.branch[k].T_BUS, built.branch[k].T_BUS)
        /\ \A p \in DOMAIN net_ppc.gen :
              same_bus(net_ppc.gen[p].GEN_BUS, built.gen[net_ppc.gen[p].QMAX].GEN_BUS)

\* the value columns of the stored case all carry the operating point op
regenerated(table, col, op) == \A k \in DOMAIN table : table[k][col] = op

\* the operating point the builders of the update wrote: the bus values
update_op(ppc) == ppc.bus[0].PD

\* C12 as stated: an update regenerates the bus and generator values in both
\* cases, regenerates the transformer-derived branch values when
\* recycle["Ybus"] is set and leaves them as they were when it is not.
C12_TrafoRegeneratedIfRecycled ==
    [][last' = "update_ppc" =>
          /\ \E op \in OpValues :
                /\ regenerated(net_ppc'.bus, "PD", op)
                /\ regenerated(net_ppc'.gen, "PG", op)
          /\ IF recycle'.Ybus
             THEN regenerated(net_ppc'.branch, "TAP", update_op(net_ppc'))
             ELSE column(net_ppc'.branch, "TAP") = column(net_ppc.branch, "TAP")]_vars

\* C12 as amended: an update regenerates the bus and generator values in
\* both cases, regenerates the transformer-derived branch values when
\* recycle["Ybus"] is not set and leaves them as they were when it is set.
C12_TrafoRegeneratedUnlessRecycled ==
    [][last' = "update_ppc" =>
          /\ \E op \in OpValues :
                /\ regenerated(net_ppc'.bus, "PD", op)
                /\ regenerated(net_ppc'.gen, "PG", op)
          /\ IF recycle'.Ybus
             THEN column(net_ppc'.branch, "TAP") = column(net_ppc.branch, "TAP")
             ELSE regenerated(net_ppc'.branch, "TAP", update_op(net_ppc'))]_vars

\* an update with recycle["Ybus"] set that wrote a new operating point to the
\* buses and generators and left the transformer values an earlier update
\* without the flag had regenerated
C12_Witness ==
    /\ last = "update_ppc"
    /\ recycle.Ybus
    /\ regenerated(net_ppc.bus, "PD", 0)
    /\ regenerated(net_ppc.gen, "PG", 0)
    /\ net_ppc.branch # << >>
    /\ regenerated(net_ppc.branch, "TAP", 1)

\* the net bus ids a bus lookup resolves to "not present"
not_present(lookup) == {i \in DOMAIN lookup : lookup[i] < 0}

\* C13: the bus lookup the compile leaves on the net holds e2i[v] where the
\* lookup as built held a valid entry v and the sentinel where it held a
\* sentinel, so the same ids resolve to "not present" before and after.
C13_LookupRemapKeepsSentinels ==
    Compiled =>
        /\ DOMAIN lookups["bus"] = DOMAIN built.bus_lookup
        /\ \A i \in DOMAIN built.bus_lookup :
              lookups["bus"][i] = IF built.bus_lookup[i] >= 0
                                  THEN e2i[built.bus_lookup[i]]
                                  ELSE built.bus_lookup[i]
        /\ not_present(lookups["bus"]) = not_present(built.bus_lookup)

\* a compile that moved a valid entry of a lookup that holds a sentinel and
\* two ids of one row
C13_Witness ==
    /\ Compiled
    /\ not_present(built.bus_lookup) # {}
    /\ \E i \in DOMAIN built.bus_lookup :
          /\ built.bus_lookup[i] >= 0
          /\ lookups["bus"][i] # built.bus_lookup[i]
    /\ \E i, j \in DOMAIN built.bus_lookup :
          /\ i # j
          /\ built.bus_lookup[i] = built.bus_lookup[j]
          /\ built.bus_lookup[i] >= 0

====
